---- MODULE Spec2Model ----
(***************************************************************************)
(* Model of finance_ml/data_structures/standard_bars.py: sample_bar and    *)
(* its helpers (_get_tick_bar, _get_volume_bar, _get_dollar_bar,           *)
(* _get_auto_threshold, _assign_groups_threshold).                         *)
(*                                                                         *)
(* A DataFrame is a record [columns, data]: the ordered column names and   *)
(* one sequence of values per column.  Python variables hold references    *)
(* into `heap`, so that DataFrame.copy and in-place column assignment are  *)
(* modelled as what they do to objects, not to values.                     *)
(* Measures are integers; the auto threshold is computed in exact          *)
(* rationals (no floating-point error is modelled).                        *)
(***************************************************************************)
EXTENDS Integers, Sequences, FiniteSets, TLC

\* ------------------------------------------------------------------ bounds
MaxRows == 3
MaxVol == 1
\* timestamps per business day: date_time = day * DayLen + position
DayLen == 10

\* --------------------------------------------------------------- constants
POSSIBLE_BAR_TYPES == {"tick", "volume", "dollar"}
\* np.nan, the initial value of the 'group' column
NaN == -1

VARIABLES
    heap,          \* the DataFrame objects, by reference
    df,            \* reference of the caller's table
    bar_type, threshold, datetime_col, price_col, vol_col, rounding, auto_ratio,
    aux,           \* sample_bar's working copy (0: not bound yet)
    tmp,           \* _assign_groups_threshold's working copy (0: not bound yet)
    th, ref, group, ref_row, row,
    bars,          \* the returned bar table
    printed,       \* what print() has emitted
    pc, err

vars == <<heap, df, bar_type, threshold, datetime_col, price_col, vol_col,
          rounding, auto_ratio, aux, tmp, th, ref, group, ref_row, row,
          bars, printed, pc, err>>

\* ----------------------------------------------------------------- helpers
RECURSIVE SumTo(_, _)
SumTo(s, k) == IF k = 0 THEN 0 ELSE SumTo(s, k - 1) + s[k]

Sum(s) == SumTo(s, Len(s))

\* Series.cumsum()
cumsum(s) == [i \in 1..Len(s) |-> SumTo(s, i)]

SetMax(S) == CHOOSE x \in S : \A y \in S : y <= x
SetMin(S) == CHOOSE x \in S : \A y \in S : x <= y

RECURSIVE SortedSeq(_)
SortedSeq(S) == IF S = {} THEN <<>>
                ELSE LET m == SetMin(S) IN <<m>> \o SortedSeq(S \ {m})

\* ------------------------------------------------------------- DataFrames
NRows(t) == IF Len(t.columns) = 0 THEN 0 ELSE Len(t.data[t.columns[1]])

HasCol(t, c) == \E i \in 1..Len(t.columns) : t.columns[i] = c

\* t[c] = v: replaces column c, or appends it as the last column
SetCol(t, c, v) ==
    [columns |-> IF HasCol(t, c) THEN t.columns ELSE Append(t.columns, c),
     data    |-> [x \in DOMAIN t.data \cup {c} |-> IF x = c THEN v ELSE t.data[x]]]

LastCol(t) == t.columns[Len(t.columns)]

\* DataFrame.copy(deep=True): a new object with the same content
copy_alias(h, r) == [heap |-> h, ref |-> r]
copy(h, r) == [heap |-> Append(h, h[r]), ref |-> Len(h) + 1]

\* --------------------------------------------------------- auto threshold
\* business day of a timestamp (the bin resample('B') puts it in)
BDay(ts) == ts \div DayLen

\* df.set_index('date_time').resample('B').sum()[tgt_col].mean(): the bins run
\* from the first to the last business day of the index, empty ones sum to 0.
\* The mean is the rational num / den.
DailyMean(t, tgt_col) ==
    LET days == {BDay(t.data["date_time"][i]) : i \in 1..NRows(t)}
    IN  [num |-> Sum(t.data[tgt_col]),
         den |-> SetMax(days) - SetMin(days) + 1]

\* mean_no_ticks * auto_ratio, before rounding
Scaled_div(m, r) == [num |-> m.num * r.den, den |-> m.den * r.num]
Scaled(m, r) == [num |-> m.num * r.num, den |-> m.den * r.den]

RECURSIVE Pow10(_)
Pow10(k) == IF k = 0 THEN 1 ELSE 10 * Pow10(k - 1)

\* np.round(x, decimals) for decimals <= 0 and x = num / den >= 0:
\* rint(x / 10^-decimals) * 10^-decimals, rint rounding halves to even
np_round(x, decimals) ==
    LET unit == Pow10(-decimals)
        d    == x.den * unit
        q    == x.num \div d
        rem  == x.num % d
    IN  unit * (IF 2 * rem < d THEN q
                ELSE IF 2 * rem > d THEN q + 1
                ELSE IF q % 2 = 0 THEN q ELSE q + 1)

_get_auto_threshold(t, tgt_col, rnd, ratio) ==
    np_round(Scaled(DailyMean(t, tgt_col), ratio), rnd)

\* ------------------------------------------------------------------ inputs
DefaultNames == <<"date_time", "price", "volume">>
CustomNames == <<"ts", "px", "qty">>
DefaultRounding == -2
DefaultRatio == [num |-> 1, den |-> 50]

Prices == {1, 2}
Days == {0, 1}
Roundings == {-1, 0}
Ratios == {[num |-> 1, den |-> 2], [num |-> 1, den |-> 1], [num |-> 2, den |-> 1]}
FixedThresholds == {-1, 0, 1, 2, 3}

Fixed(v) == [auto |-> FALSE, value |-> v]
Auto == [auto |-> TRUE, value |-> 0]

\* non-decreasing business days, the first tick on day 0
DaySeqs(n) == {d \in [1..n -> Days] :
                 /\ n > 0 => d[1] = 0
                 /\ \A i \in 1..n : \A j \in i..n : d[i] <= d[j]}

MkTable(names, dts, ps, vs) ==
    [columns |-> names,
     data    |-> (names[1] :> dts @@ names[2] :> ps @@ names[3] :> vs)]

\* the five-row example of the aggregation contract
ExampleTable ==
    MkTable(DefaultNames, <<1, 2, 3, 4, 5>>, <<10, 11, 9, 12, 10>>, <<1, 1, 1, 1, 1>>)

\* the state at the call sample_bar(t, b, thr, a[1], a[2], a[3], rnd, ratio)
Call(t, b, thr, a, rnd, ratio) ==
    /\ heap = <<t>>
    /\ df = 1
    /\ bar_type = b
    /\ threshold = thr
    /\ datetime_col = a[1]
    /\ price_col = a[2]
    /\ vol_col = a[3]
    /\ rounding = rnd
    /\ auto_ratio = ratio
    /\ aux = 0 /\ tmp = 0
    /\ th = 0 /\ ref = 0 /\ group = 0 /\ ref_row = 0 /\ row = 0
    /\ bars = <<>>
    /\ printed = <<>>
    /\ pc = "start"
    /\ err = ""

OneDay(n) == [i \in 1..n |-> 0]
One == [num |-> 1, den |-> 1]

\* The calls explored: every table of up to MaxRows rows under the default
\* column names with every supported bar type and every threshold; the same
\* tables under other column names, or with column arguments that do not
\* match; an unsupported bar type; and the five-row example.  Auto mode is
\* explored on non-empty tables only (resample on an empty index is not
\* modelled).
Init ==
    \/ \E n \in 0..MaxRows :
         \E ps \in [1..n -> Prices], vs \in [1..n -> 0..MaxVol] :
           LET t(cols, d) == MkTable(cols, [i \in 1..n |-> d[i] * DayLen + i], ps, vs)
           IN  \/ \E b \in POSSIBLE_BAR_TYPES, v \in FixedThresholds :
                    Call(t(DefaultNames, OneDay(n)), b, Fixed(v), DefaultNames,
                         DefaultRounding, DefaultRatio)
               \/ /\ n > 0
                  /\ \E d \in DaySeqs(n), b \in POSSIBLE_BAR_TYPES,
                        r \in Roundings, q \in Ratios :
                       Call(t(DefaultNames, d), b, Auto, DefaultNames, r, q)
               \/ \E cols \in {DefaultNames, CustomNames},
                     a \in {DefaultNames, CustomNames}, b \in POSSIBLE_BAR_TYPES,
                     thr \in {Fixed(2)} \cup (IF n > 0 THEN {Auto} ELSE {}) :
                    /\ <<cols, a>> # <<DefaultNames, DefaultNames>>
                    /\ Call(t(cols, OneDay(n)), b, thr, a, 0, One)
               \/ Call(t(DefaultNames, OneDay(n)), "time", Fixed(2), DefaultNames,
                       DefaultRounding, DefaultRatio)
    \/ Call(ExampleTable, "tick", Fixed(2), DefaultNames, DefaultRounding, DefaultRatio)

\* ------------------------------------------------------------- operations
\* the call-site arguments tgt_col and cum_col of _assign_groups_threshold
TgtCol == CASE bar_type = "tick" -> "ticks"
            [] bar_type = "volume" -> "volume"
            [] OTHER -> "dollar"

CumCol == CASE bar_type = "tick" -> "cum_ticks"
            [] bar_type = "volume" -> "cum_vol"
            [] OTHER -> "cum_dol"

\* sample_bar up to the first statement of the _get_*_bar it dispatches to:
\* the column and bar-type assertions, the working copy, the derived columns
\* 'ticks' and 'dollar', and the cumulative column of the chosen measure.
sample_bar ==
    /\ pc = "start"
    /\ UNCHANGED <<df, bar_type, threshold, datetime_col, price_col, vol_col,
                   rounding, auto_ratio, tmp, th, ref, group, ref_row, row,
                   bars, printed>>
    /\ IF \/ ~HasCol(heap[df], datetime_col)
          \/ ~HasCol(heap[df], price_col)
          \/ ~HasCol(heap[df], vol_col)
       THEN /\ pc' = "failed" /\ err' = "AssertionError: Missing column"
            /\ UNCHANGED <<heap, aux>>
       ELSE IF bar_type \notin POSSIBLE_BAR_TYPES
       THEN /\ pc' = "failed" /\ err' = "AssertionError: bar_type"
            /\ UNCHANGED <<heap, aux>>
       ELSE LET c  == copy(heap, df)
                n  == NRows(c.heap[c.ref])
                a1 == SetCol(c.heap[c.ref], "ticks", [i \in 1..n |-> 1])
                a2 == SetCol(a1, "dollar",
                             [i \in 1..n |-> a1.data[price_col][i] * a1.data[vol_col][i]])
            IN  /\ aux' = c.ref
                /\ IF HasCol(a2, TgtCol)
                   THEN /\ heap' = [c.heap EXCEPT ![c.ref] =
                                      SetCol(a2, CumCol, cumsum(a2.data[TgtCol]))]
                        /\ pc' = "assign" /\ err' = err
                   ELSE /\ heap' = [c.heap EXCEPT ![c.ref] = a2]
                        /\ pc' = "failed" /\ err' = "KeyError"

\* _assign_groups_threshold before its loop: the copy, the threshold (resolved
\* and printed in auto mode), the empty 'group' column, the loop variables.
assign_groups_init ==
    /\ pc = "assign"
    /\ UNCHANGED <<df, bar_type, threshold, datetime_col, price_col, vol_col,
                   rounding, auto_ratio, aux, bars>>
    /\ LET c == copy(heap, aux)
           n == NRows(c.heap[c.ref])
       IN  /\ tmp' = c.ref
           /\ IF threshold.auto /\ ~HasCol(heap[aux], "date_time")
              THEN /\ heap' = c.heap
                   /\ pc' = "failed" /\ err' = "KeyError"
                   /\ UNCHANGED <<th, printed, ref, group, ref_row, row>>
              ELSE /\ th' = IF threshold.auto
                            THEN _get_auto_threshold(heap[aux], TgtCol, rounding, auto_ratio)
                            ELSE threshold.value
                   /\ printed' = IF threshold.auto THEN Append(printed, th') ELSE printed
                   /\ heap' = [c.heap EXCEPT ![c.ref] =
                                 SetCol(@, "group", [i \in 1..n |-> NaN])]
                   /\ ref' = 0 /\ group' = 0 /\ ref_row' = 0 /\ row' = 0
                   /\ pc' = "loop" /\ err' = err

\* the comparison of line 209
Crosses_gt(v, t) == v > t
Crosses(v, t) == v >= t

\* tmp.iloc[ref_row:(row+1), -1] = group
iloc_assign(t, lo, hi, g) ==
    [t EXCEPT !.data[LastCol(t)] =
        [i \in 1..Len(@) |-> IF lo < i /\ i <= hi THEN g ELSE @[i]]]

\* tmp[cum_col] -= ref
rebase_none(t, c, v) == t
rebase(t, c, v) ==
    [t EXCEPT !.data[c] = [i \in 1..Len(@) |-> @[i] - v]]

\* one iteration of the loop over range(df.shape[0])
loop_step ==
    /\ pc = "loop"
    /\ row < NRows(heap[aux])
    /\ UNCHANGED <<df, bar_type, threshold, datetime_col, price_col, vol_col,
                   rounding, auto_ratio, aux, tmp, th, bars, printed, pc, err>>
    /\ LET v == heap[tmp].data[CumCol][row + 1]
       IN  IF Crosses(v, th)
           THEN /\ ref' = v
                /\ heap' = [heap EXCEPT ![tmp] =
                              iloc_assign(rebase(@, CumCol, v), ref_row, row + 1, group)]
                /\ group' = group + 1
                /\ ref_row' = row + 1
           ELSE UNCHANGED <<ref, heap, group, ref_row>>
    /\ row' = row + 1

\* ---------------------------------------------------------------- groupby
RECURSIVE SumOver(_, _)
SumOver(s, idx) == IF idx = {} THEN 0
                   ELSE LET i == SetMin(idx) IN s[i] + SumOver(s, idx \ {i})

\* the keys of df.groupby(groups): NaN keys are dropped, the rest sorted
GroupKeys(g) == SortedSeq({g[i] : i \in 1..Len(g)} \ {NaN})

\* the aggregation of one group: 'last' of date_time, first/max/min/last of
\* price, sums of ticks, volume and dollar; renamed as in lines 84-85
agg(t, g, k) ==
    LET idx == {i \in 1..Len(g) : g[i] = k}
    IN  [date_time |-> t.data["date_time"][SetMax(idx)],
         open      |-> t.data["price"][SetMin(idx)],
         high      |-> SetMax({t.data["price"][i] : i \in idx}),
         low       |-> SetMin({t.data["price"][i] : i \in idx}),
         close     |-> t.data["price"][SetMax(idx)],
         ticks     |-> SumOver(t.data["ticks"], idx),
         volume    |-> SumOver(t.data["volume"], idx),
         dollar    |-> SumOver(t.data["dollar"], idx)]

groupby_agg(t, g) ==
    LET keys == GroupKeys(g) IN [j \in 1..Len(keys) |-> agg(t, g, keys[j])]

\* the loop is over: _assign_groups_threshold returns tmp['group'].values and
\* _get_*_bar groups and aggregates its table by them
get_bar_aggregate ==
    /\ pc = "loop"
    /\ row = NRows(heap[aux])
    /\ UNCHANGED <<heap, df, bar_type, threshold, datetime_col, price_col, vol_col,
                   rounding, auto_ratio, aux, tmp, th, ref, group, ref_row, row,
                   printed>>
    /\ IF /\ HasCol(heap[aux], "date_time")
          /\ HasCol(heap[aux], "price")
          /\ HasCol(heap[aux], "volume")
       THEN /\ bars' = groupby_agg(heap[aux], heap[tmp].data["group"])
            /\ pc' = "done" /\ err' = err
       ELSE /\ bars' = bars
            /\ pc' = "failed" /\ err' = "KeyError"

Next == sample_bar \/ assign_groups_init \/ loop_step \/ get_bar_aggregate

Spec == Init /\ [][Next]_vars

\* ------------------------------------------------------- views of a state
\* the group labels _assign_groups_threshold has written so far
Groups == heap[tmp].data["group"]
\* the per-row measure and its cumulative sum, as sample_bar computed them
Measure == heap[aux].data[TgtCol]
Cum0 == heap[aux].data[CumCol]
N == NRows(heap[df])
GroupIds == {Groups[i] : i \in 1..Len(Groups)} \ {NaN}
RowsOf(g) == {i \in 1..Len(Groups) : Groups[i] = g}
\* the measure accumulated over rows lo..hi
Accum(lo, hi) == SumTo(Measure, hi) - SumTo(Measure, lo - 1)

\* --------------------------------------------- the single pass of the spec
\* The scalar-baseline pass of the specification (section 4.2), after its
\* first k rows: baseline, group_id, group_start_index, the group ids given
\* so far (NaN where deferred) and the rows that closed a bar.
RECURSIVE SinglePass(_, _, _)
SinglePass(cum, t, k) ==
    IF k = 0
    THEN [baseline |-> 0, group_id |-> 0, group_start_index |-> 0,
          groups |-> [i \in 1..Len(cum) |-> NaN], closes |-> {}]
    ELSE LET s == SinglePass(cum, t, k - 1)
             local_cumsum == cum[k] - s.baseline
         IN  IF local_cumsum >= t
             THEN [baseline |-> cum[k],
                   group_id |-> s.group_id + 1,
                   group_start_index |-> k,
                   groups |-> [i \in 1..Len(cum) |->
                                 IF s.group_start_index < i /\ i <= k
                                 THEN s.group_id ELSE s.groups[i]],
                   closes |-> s.closes \cup {k}]
             ELSE s

\* ratios as rationals
Greater(q, r) == q.num * r.den > r.num * q.den
Twice(r) == [num |-> 2 * r.num, den |-> r.den]

\* ------------------------------------------------------------------ claims

\* C1 (as claimed): once sample has returned for an input of n >= 1 rows and a
\* positive threshold, every row has an integer group id, the ids start at
\* 0, never decrease and rise by at most one from a row to the next.
C1_Partition ==
    (pc = "done" /\ N >= 1 /\ th > 0) =>
        /\ Len(Groups) = N
        /\ \A i \in 1..N : Groups[i] # NaN /\ Groups[i] \in Nat
        /\ Groups[1] = 0
        /\ \A i \in 1..(N - 1) : Groups[i + 1] - Groups[i] \in {0, 1}

\* C2: every labelled group (all groups the loop has closed) reaches the
\* threshold at its last row and at no earlier row: the measure accumulated
\* from the group's first row to row k is >= th exactly when k is the group's
\* last row.
C2_ThresholdCrossing ==
    (pc \in {"loop", "done"}) =>
        \A g \in GroupIds :
            LET first == SetMin(RowsOf(g))
                last  == SetMax(RowsOf(g))
            IN  /\ RowsOf(g) = first..last
                /\ Accum(first, last) >= th
                /\ \A k \in first..(last - 1) : Accum(first, k) < th

\* C2 witness: a finished call with a positive threshold, at least two closed
\* groups, one of them of several rows that closes at exactly the threshold.
C2_Witness ==
    /\ pc = "done" /\ th > 0 /\ group >= 2
    /\ \E g \in GroupIds :
          /\ Cardinality(RowsOf(g)) >= 2
          /\ Accum(SetMin(RowsOf(g)), SetMax(RowsOf(g))) = th

\* C3 (as claimed): the rows after the last crossing carry the unfinished
\* group id and make one more bar, the last one of the output.
C3_TrailingPartial ==
    (pc = "done" /\ th > 0 /\ ref_row < N) =>
        /\ \A i \in (ref_row + 1)..N : Groups[i] = group
        /\ Len(bars) = group + 1
        /\ bars[Len(bars)].ticks = N - ref_row

\* C4 (as claimed): one bar per distinct group id in ascending order, each
\* the reduction of its rows; and the five-row example gives groups
\* [0,0,1,1,2] and the three bars of the contract.
C4_Aggregation ==
    (pc = "done") =>
        /\ Len(bars) = Cardinality(GroupIds)
        /\ \A j \in 1..Len(bars) :
              LET ids == SortedSeq(GroupIds)
                  R   == RowsOf(ids[j])
                  px  == heap[df].data["price"]
              IN  /\ bars[j].date_time = heap[df].data["date_time"][SetMax(R)]
                  /\ bars[j].open = px[SetMin(R)]
                  /\ bars[j].close = px[SetMax(R)]
                  /\ \A i \in R : bars[j].low <= px[i] /\ px[i] <= bars[j].high
                  /\ \E i \in R : bars[j].high = px[i]
                  /\ \E i \in R : bars[j].low = px[i]
                  /\ bars[j].ticks = Cardinality(R)
                  /\ bars[j].volume = SumOver(heap[df].data["volume"], R)
                  /\ bars[j].dollar =
                        SumOver([i \in 1..N |-> px[i] * heap[df].data["volume"][i]], R)
        /\ (heap[df] = ExampleTable /\ bar_type = "tick" /\ threshold = Fixed(2)) =>
              /\ Groups = <<0, 0, 1, 1, 2>>
              /\ [j \in 1..Len(bars) |->
                    <<bars[j].open, bars[j].high, bars[j].low, bars[j].close,
                      bars[j].ticks>>]
                 = <<(<<10, 11, 10, 11, 2>>), (<<9, 12, 9, 12, 2>>),
                     (<<10, 10, 10, 10, 1>>)>>

\* C5 (as claimed): a call whose threshold, fixed or resolved in auto mode,
\* is <= 0 fails instead of grouping: no call on a non-empty table returns
\* bars made with a threshold <= 0.
C5_NonPositiveRejected ==
    (pc = "done" /\ N >= 1) => th > 0

\* C6 (as claimed): a call on a table of zero rows (columns present, bar type
\* supported, fixed positive threshold) never returns a bar table: it fails
\* with EmptyInput.
C6_EmptyRejected ==
    (/\ N = 0
     /\ HasCol(heap[df], "date_time") /\ datetime_col = "date_time"
     /\ bar_type \in POSSIBLE_BAR_TYPES
     /\ ~threshold.auto /\ threshold.value > 0) =>
        /\ pc # "done"
        /\ (pc = "failed" => err = "EmptyInput")

\* C7 (as claimed): in auto mode every larger auto_ratio resolves, for the
\* same table, measure and rounding, to a strictly larger threshold (stated
\* here only of calls whose resolved threshold is positive).
C7_StrictlyIncreasing ==
    (pc \in {"loop", "done"} /\ threshold.auto /\ th > 0) =>
        \A q \in Ratios :
            Greater(q, auto_ratio) =>
                _get_auto_threshold(heap[aux], TgtCol, rounding, q) > th

\* C7 (amended): in auto mode no larger auto_ratio resolves to a smaller
\* threshold, and the value before rounding (mean daily total times
\* auto_ratio) is exactly doubled by doubling auto_ratio.
C7_NonDecreasing ==
    (pc \in {"loop", "done"} /\ threshold.auto) =>
        /\ \A q \in Ratios :
              Greater(q, auto_ratio) =>
                  _get_auto_threshold(heap[aux], TgtCol, rounding, q) >= th
        /\ LET m == DailyMean(heap[aux], TgtCol)
               x == Scaled(m, auto_ratio)
               y == Scaled(m, Twice(auto_ratio))
           IN  y.num * x.den = 2 * x.num * y.den

\* C7 witness: a positive auto threshold that a larger auto_ratio leaves
\* unchanged after rounding.
C7_Witness ==
    /\ pc = "done" /\ threshold.auto /\ th > 0
    /\ \E q \in Ratios :
          /\ Greater(q, auto_ratio)
          /\ _get_auto_threshold(heap[aux], TgtCol, rounding, q) = th

\* C8 (as claimed): a call whose column arguments all name columns of the
\* table, with a supported bar type, never fails after validation.
C8_ConfigurableNames ==
    (/\ HasCol(heap[df], datetime_col)
     /\ HasCol(heap[df], price_col)
     /\ HasCol(heap[df], vol_col)
     /\ bar_type \in POSSIBLE_BAR_TYPES) => pc # "failed"

\* C9: no step of sample changes the caller's table (its columns or its
\* values), and the only emission is the resolved threshold, once, in auto
\* mode; none in fixed mode.
C9_Emission ==
    /\ Len(printed) <= 1
    /\ ~threshold.auto => printed = <<>>
    /\ (threshold.auto /\ pc \in {"loop", "done"}) => printed = <<th>>

C9_SideEffectFree ==
    [][heap'[df'] = heap[df]]_vars /\ []C9_Emission

\* C9 witness: a finished auto-mode call that printed its threshold, closed
\* a bar (so that the cumulative column was rebased) and left the caller's
\* table with its three columns.
C9_Witness ==
    /\ pc = "done" /\ threshold.auto /\ printed = <<th>> /\ th > 0 /\ group >= 1
    /\ N >= 2
    /\ Len(heap[df].columns) = 3
    /\ HasCol(heap[tmp], "group") /\ HasCol(heap[aux], CumCol)

\* C10: for a positive threshold, after each row the source loop and the
\* scalar-baseline pass agree: same number of closed bars, same start of the
\* open group, same closing rows, same ids on every row of a closed group;
\* and the rebased value the loop reads next is the original cumulative
\* value minus the scalar baseline.
C10_RebasingEquivalence ==
    (pc \in {"loop", "done"} /\ th > 0) =>
        LET s == SinglePass(Cum0, th, row)
        IN  /\ s.group_id = group
            /\ s.group_start_index = ref_row
            /\ s.closes = {i \in 1..row : Groups[i] # NaN /\
                              (i = ref_row \/ Groups[i + 1] # Groups[i])}
            /\ \A i \in 1..ref_row : Groups[i] = s.groups[i]
            /\ row < N =>
                  heap[tmp].data[CumCol][row + 1] = Cum0[row + 1] - s.baseline

\* C10 witness: a finished call with a positive threshold in which two bars
\* closed, the second after a rebasing by a non-zero amount.
C10_Witness ==
    /\ pc = "done" /\ th > 0 /\ group >= 2 /\ ref > 0
    /\ Cardinality(RowsOf(0)) >= 2
    /\ SinglePass(Cum0, th, N).group_id = 2

====
